---- MODULE Spec2Model ----
(***************************************************************************)
(* portcheck: the port-declaration normaliser (parsePort) and the conflict *)
(* analyser (Result.analyze) of internal/scanner/scanner.go, together with *)
(* the Scan loop that feeds one into the other; the compose-profile        *)
(* loader and conflict detector of package profiles (LoadProfiles,         *)
(* DetectPortConflicts); and the scan command of cmd/scan.go (runScan),    *)
(* which combines them with the runtime cross-reference and decides the    *)
(* exit status.                                                            *)
(*                                                                         *)
(* Go strings that the code inspects character by character (the raw port  *)
(* declaration, the host address, the protocol) are sequences of           *)
(* one-character strings.  Service names are opaque TLA+ strings and a     *)
(* compose file path is the index of the file in Result.ComposeFiles       *)
(* (the discovered paths are pairwise distinct).                           *)
(***************************************************************************)
EXTENDS Integers, Sequences, FiniteSets, TLC

VARIABLES
    pc,            \* position of Scan: "parsing" (the loop over ComposeFiles) or "done" (returned)
    files,         \* the compose files Scan has read so far, in order (the scan's input)
    PortBindings,  \* Result.PortBindings
    PortMap,       \* Result.PortMap: host port -> bindings
    Issues,        \* Result.Issues
    err,           \* the error Scan returned: "unset" until it returns
    port,          \* parsePort call: the argument port (a decoded YAML value)
    binding,       \* parsePort call: the result, <<>> for nil, <<b>> for &b
    strictMode,    \* cmd: the --strict flag
    outputFormat,  \* cmd: the --format flag
    runtimeScan,   \* cmd: the --runtime flag
    activeProfiles, \* cmd: the --profile flags, in the order given
    config,        \* profiles: the *ProfilesConfig LoadProfiles returned
    conflicts,     \* profiles: the []PortConflict DetectPortConflicts returned
    runtimeResult, \* cmd: the *RuntimeResult of runScan
    exitCode,      \* cmd: the exit status of the process, -1 while it runs
    rerun,         \* the result of a second Scan of the same files
    suggestPorts,  \* cmd: the --suggest flag
    inUse,         \* the host ports on which net.Listen fails
    suggestions,   \* cmd: the suggestions map of runScan, <<>> while it is nil or empty
    extracted      \* extractHostPort call: the result, <<>> before the call, <<text>> after

cmdVars == <<strictMode, outputFormat, runtimeScan, activeProfiles, config, conflicts,
             runtimeResult, exitCode, rerun, suggestPorts, inUse, suggestions, extracted>>

vars == <<pc, files, PortBindings, PortMap, Issues, err, port, binding,
          strictMode, outputFormat, runtimeScan, activeProfiles, config, conflicts,
          runtimeResult, exitCode, rerun, suggestPorts, inUse, suggestions, extracted>>

----------------------------------------------------------------------------
(* Bounds of the model. *)

\* total number of port entries (accepted or not) one scan reads
MaxEntries == 3
\* number of compose files one scan discovers
MaxFiles == 2
\* total number of port entries of a scan over the declarations parsePort rejects
MaxRejectEntries == 2
MaxProtoEntries == 3
MaxExposeEntries == 2
\* compose files and port entries of a directory the profile overlay reads
MaxProfileFiles == 1
MaxProfileEntries == 2
\* total number of port entries of the files that are scanned twice
MaxTwiceEntries == 2
\* total number of port entries of a scan over declarations with negative ports
MaxNegEntries == 2
\* total number of port entries of the files the overlay reads rejected declarations from
MaxRejectedProfileEntries == 2
\* number of compose files and of port entries of a scan with --suggest
MaxSuggestFiles == 1
MaxSuggestEntries == 3

Services == {"web", "api"}

----------------------------------------------------------------------------
(* Strings as character sequences. *)

Digits == {"0", "1", "2", "3", "4", "5", "6", "7", "8", "9"}

DigitVal(c) ==
    CASE c = "0" -> 0 [] c = "1" -> 1 [] c = "2" -> 2 [] c = "3" -> 3
      [] c = "4" -> 4 [] c = "5" -> 5 [] c = "6" -> 6 [] c = "7" -> 7
      [] c = "8" -> 8 [] c = "9" -> 9

DigitChar(d) ==
    CASE d = 0 -> "0" [] d = 1 -> "1" [] d = 2 -> "2" [] d = 3 -> "3"
      [] d = 4 -> "4" [] d = 5 -> "5" [] d = 6 -> "6" [] d = 7 -> "7"
      [] d = 8 -> "8" [] d = 9 -> "9"

\* fmt.Sprintf("%d", n)
RECURSIVE FmtNat(_)
FmtNat(n) == IF n < 10 THEN <<DigitChar(n)>> ELSE FmtNat(n \div 10) \o <<DigitChar(n % 10)>>

FmtInt(n) == IF n < 0 THEN <<"-">> \o FmtNat(0 - n) ELSE FmtNat(n)

AllDigits(s) == \A i \in 1..Len(s) : s[i] \in Digits

RECURSIVE DecVal(_)
DecVal(s) == IF s = <<>> THEN 0 ELSE 10 * DecVal(SubSeq(s, 1, Len(s) - 1)) + DigitVal(s[Len(s)])

\* strconv.Atoi with the error discarded: the value, or 0 on a syntax error.
\* (A range error yields the clamped 64-bit value; the numerals of this
\* model are short enough never to reach it.)
Atoi(s) ==
    IF s = <<>> THEN 0
    ELSE IF s[1] \in {"+", "-"}
         THEN IF Len(s) > 1 /\ AllDigits(Tail(s))
              THEN IF s[1] = "-" THEN 0 - DecVal(Tail(s)) ELSE DecVal(Tail(s))
              ELSE 0
         ELSE IF AllDigits(s) THEN DecVal(s) ELSE 0

Str_tcp == <<"t", "c", "p">>
Str_udp == <<"u", "d", "p">>
Str_wild == <<"0", ".", "0", ".", "0", ".", "0">>
Str_lo == <<"1", "2", "7", ".", "0", ".", "0", ".", "1">>
Str_lan == <<"1", "9", "2", ".", "1", "6", "8", ".", "1", ".", "1">>

----------------------------------------------------------------------------
(* portRegex:                                                              *)
(* ^(?:(\d{1,3}\.\d{1,3}\.\d{1,3}\.\d{1,3}):)?(\d+)(?::(\d+))?(?:/(tcp|udp))?$ *)
(* Positions are 1-based; a matcher returns the position after what it     *)
(* consumed, or 0 when it fails.                                           *)

\* \d* from position i, greedy
RECURSIVE DigitRun(_, _)
DigitRun(s, i) == IF i <= Len(s) /\ s[i] \in Digits THEN DigitRun(s, i + 1) ELSE i

\* a literal at position i
Lit(s, i, lit) ==
    IF i >= 1 /\ i + Len(lit) - 1 <= Len(s) /\ SubSeq(s, i, i + Len(lit) - 1) = lit
    THEN i + Len(lit) ELSE 0

\* \d{1,3} followed by the literal sep
Octet(s, i, sep) ==
    IF i = 0 THEN 0
    ELSE LET j == DigitRun(s, i)
         IN  IF j - i >= 1 /\ j - i <= 3 THEN Lit(s, j, sep) ELSE 0

\* (?:(\d{1,3}\.\d{1,3}\.\d{1,3}\.\d{1,3}):) at position 1
IPPrefix(s) == Octet(s, Octet(s, Octet(s, Octet(s, 1, <<".">>), <<".">>), <<".">>), <<":">>)

NoMatch == <<>>

\* (\d+)(?::(\d+))?(?:/(tcp|udp))?$ from position k, with group 1 already known
MatchFrom(s, k, ip) ==
    LET j == DigitRun(s, k)
        c == Lit(s, j, <<":">>)
        hasCont == c # 0 /\ DigitRun(s, c) > c
        m == IF hasCont THEN DigitRun(s, c) ELSE j
        isTcp == Lit(s, m, <<"/">> \o Str_tcp) # 0
        isUdp == Lit(s, m, <<"/">> \o Str_udp) # 0
        n == IF isTcp \/ isUdp THEN m + 4 ELSE m
    IN  IF j > k /\ n = Len(s) + 1
        THEN << s,
                ip,
                SubSeq(s, k, j - 1),
                IF hasCont THEN SubSeq(s, c, m - 1) ELSE <<>>,
                IF isTcp THEN Str_tcp ELSE IF isUdp THEN Str_udp ELSE <<>> >>
        ELSE NoMatch

\* portRegex.FindStringSubmatch(s): <<match[0], ..., match[4]>> or NoMatch (nil)
FindStringSubmatch(s) ==
    LET p == IPPrefix(s)
        withIP == IF p = 0 THEN NoMatch ELSE MatchFrom(s, p, SubSeq(s, 1, p - 2))
    IN  IF withIP # NoMatch THEN withIP ELSE MatchFrom(s, 1, <<>>)

----------------------------------------------------------------------------
(* Decoded YAML values: what yaml.Unmarshal puts into []interface{}.       *)

\* a value under a key of a long-form mapping; t = "absent" when the key is missing
Absent == [t |-> "absent", i |-> 0, s |-> <<>>]
IntV(n) == [t |-> "int", i |-> n, s |-> <<>>]
StrV(x) == [t |-> "string", i |-> 0, s |-> x]
\* a value of any other type (float64, bool, nil, a list, a nested map)
OtherV == [t |-> "other", i |-> 0, s |-> <<>>]

\* an entry of a ports list
YString(x) == [type |-> "string", str |-> x, int |-> 0,
               target |-> Absent, published |-> Absent, protocol |-> Absent, host_ip |-> Absent]
YInt(n) == [type |-> "int", str |-> <<>>, int |-> n,
            target |-> Absent, published |-> Absent, protocol |-> Absent, host_ip |-> Absent]
YMap(tg, pb, pr, ip) == [type |-> "map", str |-> <<>>, int |-> 0,
                         target |-> tg, published |-> pb, protocol |-> pr, host_ip |-> ip]
\* an entry of an unsupported type (float64, bool, nil, a list, a non-string-keyed map)
YOther == [type |-> "other", str |-> <<>>, int |-> 0,
           target |-> Absent, published |-> Absent, protocol |-> Absent, host_ip |-> Absent]

----------------------------------------------------------------------------
(* parsePort *)

\* binding := &PortBinding{Service: service, File: file, Protocol: "tcp"}
NewBinding(service, file) ==
    [HostPort |-> 0, ContainerPort |-> 0, Protocol |-> Str_tcp, HostIP |-> <<>>,
     Service |-> service, File |-> file, Original |-> <<>>]

\* a slip: the container part of the match is ignored
FromMatch_ContainerIsHost(b, v, match) ==
    [b EXCEPT !.Original = v,
              !.HostIP = match[2],
              !.HostPort = Atoi(match[3]),
              !.ContainerPort = Atoi(match[3]),
              !.Protocol = IF match[5] # <<>> THEN match[5] ELSE @]

\* case string, after a successful match
FromMatch(b, v, match) ==
    LET hostPort == Atoi(match[3])
        containerStr == match[4]
    IN  [b EXCEPT !.Original = v,
                  !.HostIP = match[2],
                  !.HostPort = hostPort,
                  !.ContainerPort = IF containerStr # <<>> THEN Atoi(containerStr) ELSE hostPort,
                  !.Protocol = IF match[5] # <<>> THEN match[5] ELSE @]

\* a slip: a published port given as a string is not read
PublishedPort_IntOnly(pb) == IF pb.t = "int" THEN pb.i ELSE 0

\* the published key of the long syntax: an int, or a string through strconv.Atoi
PublishedPort(pb) ==
    IF pb.t = "int" THEN pb.i
    ELSE IF pb.t = "string" THEN Atoi(pb.s)
    ELSE 0

\* case map[string]interface{}
FromMap(b, v) ==
    LET hp == PublishedPort(v.published)
        cp == IF v.target.t = "int" THEN v.target.i ELSE 0
    IN  [b EXCEPT !.ContainerPort = cp,
                  !.HostPort = hp,
                  !.Protocol = IF v.protocol.t = "string" THEN v.protocol.s ELSE @,
                  !.HostIP = IF v.host_ip.t = "string" THEN v.host_ip.s ELSE @,
                  !.Original = FmtInt(hp) \o <<":">> \o FmtInt(cp)]

\* a slip: the check for host port 0 is missing
ZeroHostPort_Missing(b) == FALSE

\* if binding.HostPort == 0 { return nil }
ZeroHostPort(b) == b.HostPort = 0

\* case string: nil when the regex does not match
CaseString(b, s, match) ==
    IF match = NoMatch THEN <<>> ELSE <<FromMatch(b, s, match)>>

\* the end of parsePort: nil for a binding with host port 0
ReturnBinding(r) ==
    IF r = <<>> THEN <<>>
    ELSE IF ZeroHostPort(r[1]) THEN <<>>
    ELSE r

\* the result is <<>> for nil and <<b>> for a binding
parsePort(v, service, file) ==
    LET b0 == NewBinding(service, file)
    IN  ReturnBinding(
            CASE v.type = "string" -> CaseString(b0, v.str, FindStringSubmatch(v.str))
              [] v.type = "int" ->
                    <<[b0 EXCEPT !.Original = FmtInt(v.int), !.HostPort = v.int, !.ContainerPort = v.int]>>
              [] v.type = "map" -> <<FromMap(b0, v)>>
              [] OTHER -> <<>>)

----------------------------------------------------------------------------
(* Result.parseComposeFile *)

\* a slip: the expose list of a service is decoded into its ports list too
Unmarshal_ExposeAsPorts(doc) ==
    [i \in 1..Len(doc) |-> [name |-> doc[i].name, ports |-> doc[i].ports \o doc[i].expose]]

\* yaml.Unmarshal into composeFile: of each service of the document only the
\* ports list is kept; expose, profiles and every other key have no field
Unmarshal(doc) ==
    [i \in 1..Len(doc) |-> [name |-> doc[i].name, ports |-> doc[i].ports]]

\* the decoded composeFile: the services in the order the range over the
\* Services map visits them (any order), each with its ports list
Entries(blocks) ==
    LET RECURSIVE Flat(_)
        Flat(bs) == IF bs = <<>> THEN <<>>
                    ELSE [i \in 1..Len(Head(bs).ports) |->
                             [service |-> Head(bs).name, port |-> Head(bs).ports[i]]]
                         \o Flat(Tail(bs))
    IN  Flat(blocks)

\* a slip: the group is replaced, not appended to
MapAppend_Overwrite(m, k, b) ==
    [x \in DOMAIN m \cup {k} |-> IF x = k THEN <<b>> ELSE m[x]]

\* r.PortMap[k] = append(r.PortMap[k], b)
MapAppend(m, k, b) ==
    IF k \in DOMAIN m THEN [m EXCEPT ![k] = Append(@, b)]
    ELSE [x \in DOMAIN m \cup {k} |-> IF x = k THEN <<b>> ELSE m[x]]

\* if binding != nil: the two appends
AppendBinding(r, b) ==
    IF b # <<>>
    THEN [PortBindings |-> Append(r.PortBindings, b[1]),
          PortMap |-> MapAppend(r.PortMap, b[1].HostPort, b[1])]
    ELSE r

\* the body of the inner loop: one entry of a ports list
AddEntry(r, e, path) == AppendBinding(r, parsePort(e.port, e.service, path))

\* a slip: the first rejected entry ends the loops
RECURSIVE ParseLoop_StopAtRejected(_, _, _)
ParseLoop_StopAtRejected(r, es, path) ==
    IF es = <<>> THEN r
    ELSE IF parsePort(Head(es).port, Head(es).service, path) = <<>> THEN r
    ELSE ParseLoop_StopAtRejected(AddEntry(r, Head(es), path), Tail(es), path)

\* the two nested loops over the entries es of one file
RECURSIVE ParseLoop(_, _, _)
ParseLoop(r, es, path) ==
    IF es = <<>> THEN r ELSE ParseLoop(AddEntry(r, Head(es), path), Tail(es), path)

----------------------------------------------------------------------------
(* Result.analyze *)

IsWildcard(b) == b.HostIP = <<>> \/ b.HostIP = Str_wild

NoDesc == [fmt |-> "", port |-> 0, label |-> "", file |-> 0, text |-> <<>>]

\* a slip: a wildcard next to a specific binding is not seen as a collision
IsDirectCollision_TwoWildOnly(direct, potential) == Len(direct) > 1

\* stage 1, the condition of the collision branch
IsDirectCollision(direct, potential) ==
    Len(direct) > 1 \/ (Len(direct) > 0 /\ Len(potential) > 0)

\* a slip: the threshold is off by one
IsPotentialCollision_OffByOne(direct, potential) == Len(potential) > 2

\* stage 1, the condition of the else-if branch
IsPotentialCollision(direct, potential) == Len(potential) > 1

\* a slip: the groups are split by protocol before they are classified
GroupIssues_PerProtocol(p, bindings) ==
    LET One(bs) ==
            IF Len(bs) > 1
            THEN LET directCollisions == SelectSeq(bs, IsWildcard)
                     potentialCollisions == SelectSeq(bs, LAMBDA b : ~IsWildcard(b))
                 IN  IF IsDirectCollision(directCollisions, potentialCollisions)
                     THEN << [Severity |-> "error", Type |-> "collision", Port |-> p,
                              Description |-> [NoDesc EXCEPT !.fmt = "Port %d bound by multiple services", !.port = p],
                              Bindings |-> bs] >>
                     ELSE IF IsPotentialCollision(directCollisions, potentialCollisions)
                     THEN << [Severity |-> "warning", Type |-> "potential_collision", Port |-> p,
                              Description |-> [NoDesc EXCEPT !.fmt = "Port %d bound multiple times with specific IPs", !.port = p],
                              Bindings |-> bs] >>
                     ELSE <<>>
            ELSE <<>>
    IN  One(SelectSeq(bindings, LAMBDA b : b.Protocol = Str_tcp))
        \o One(SelectSeq(bindings, LAMBDA b : b.Protocol = Str_udp))

\* a slip: the second branch is an if of its own, not an else-if
GroupIssues_NoElse(p, bindings) ==
    IF Len(bindings) > 1
    THEN LET directCollisions == SelectSeq(bindings, IsWildcard)
             potentialCollisions == SelectSeq(bindings, LAMBDA b : ~IsWildcard(b))
         IN  (IF IsDirectCollision(directCollisions, potentialCollisions)
              THEN << [Severity |-> "error", Type |-> "collision", Port |-> p,
                       Description |-> [NoDesc EXCEPT !.fmt = "Port %d bound by multiple services", !.port = p],
                       Bindings |-> bindings] >>
              ELSE <<>>)
             \o
             (IF IsPotentialCollision(directCollisions, potentialCollisions)
              THEN << [Severity |-> "warning", Type |-> "potential_collision", Port |-> p,
                       Description |-> [NoDesc EXCEPT !.fmt = "Port %d bound multiple times with specific IPs", !.port = p],
                       Bindings |-> bindings] >>
              ELSE <<>>)
    ELSE <<>>

\* stage 1 for one key of PortMap: the issues it appends
GroupIssues(p, bindings) ==
    IF Len(bindings) > 1
    THEN LET directCollisions == SelectSeq(bindings, IsWildcard)
             potentialCollisions == SelectSeq(bindings, LAMBDA b : ~IsWildcard(b))
         IN  IF IsDirectCollision(directCollisions, potentialCollisions)
             THEN << [Severity |-> "error", Type |-> "collision", Port |-> p,
                      Description |-> [NoDesc EXCEPT !.fmt = "Port %d bound by multiple services", !.port = p],
                      Bindings |-> bindings] >>
             ELSE IF IsPotentialCollision(directCollisions, potentialCollisions)
             THEN << [Severity |-> "warning", Type |-> "potential_collision", Port |-> p,
                      Description |-> [NoDesc EXCEPT !.fmt = "Port %d bound multiple times with specific IPs", !.port = p],
                      Bindings |-> bindings] >>
             ELSE <<>>
    ELSE <<>>

\* stage 1: the range over PortMap visits the keys in the order given
RECURSIVE CollisionLoop(_, _, _)
CollisionLoop(issues, m, order) ==
    IF order = <<>> THEN issues
    ELSE CollisionLoop(issues \o GroupIssues(Head(order), m[Head(order)]), m, Tail(order))

IsPrivileged(b) == b.HostPort > 0 /\ b.HostPort < 1024

\* a slip: one privileged issue per port instead of one per binding
RECURSIVE PrivilegedLoop_PerPort(_, _)
PrivilegedLoop_PerPort(issues, bs) ==
    IF bs = <<>> THEN issues
    ELSE PrivilegedLoop_PerPort(
            IF /\ IsPrivileged(Head(bs))
               /\ ~\E i \in 1..Len(issues) :
                     issues[i].Type = "privileged" /\ issues[i].Port = Head(bs).HostPort
            THEN Append(issues,
                    [Severity |-> "warning", Type |-> "privileged", Port |-> Head(bs).HostPort,
                     Description |-> [NoDesc EXCEPT !.fmt = "Port %d is privileged (requires root/sudo)",
                                                    !.port = Head(bs).HostPort],
                     Bindings |-> <<Head(bs)>>])
            ELSE issues,
            Tail(bs))

\* stage 2: the loop over PortBindings
RECURSIVE PrivilegedLoop(_, _)
PrivilegedLoop(issues, bs) ==
    IF bs = <<>> THEN issues
    ELSE PrivilegedLoop(
            IF IsPrivileged(Head(bs))
            THEN Append(issues,
                    [Severity |-> "warning", Type |-> "privileged", Port |-> Head(bs).HostPort,
                     Description |-> [NoDesc EXCEPT !.fmt = "Port %d is privileged (requires root/sudo)",
                                                    !.port = Head(bs).HostPort],
                     Bindings |-> <<Head(bs)>>])
            ELSE issues,
            Tail(bs))

commonPorts ==
    [p \in {22, 25, 53, 80, 443, 3306, 5432, 6379, 8080, 27017} |->
        CASE p = 22 -> "SSH" [] p = 25 -> "SMTP" [] p = 53 -> "DNS" [] p = 80 -> "HTTP"
          [] p = 443 -> "HTTPS" [] p = 3306 -> "MySQL" [] p = 5432 -> "PostgreSQL"
          [] p = 6379 -> "Redis" [] p = 8080 -> "HTTP Alternate" [] p = 27017 -> "MongoDB"]

\* a slip: the inner loop looks for the wrong issue type
alreadyWarned_WrongType(issues, b) ==
    \E i \in 1..Len(issues) : issues[i].Port = b.HostPort /\ issues[i].Type = "potential_collision"

\* a slip: a collision on any port suppresses the common_port issue
alreadyWarned_AnyPort(issues, b) ==
    \E i \in 1..Len(issues) : issues[i].Type = "collision"

\* stage 3, the inner loop over r.Issues
alreadyWarned(issues, b) ==
    \E i \in 1..Len(issues) : issues[i].Port = b.HostPort /\ issues[i].Type = "collision"

\* stage 3: the second loop over PortBindings
RECURSIVE CommonLoop(_, _)
CommonLoop(issues, bs) ==
    IF bs = <<>> THEN issues
    ELSE CommonLoop(
            IF /\ Head(bs).HostPort \in DOMAIN commonPorts
               /\ IsWildcard(Head(bs))
               /\ ~alreadyWarned(issues, Head(bs))
            THEN Append(issues,
                    [Severity |-> "info", Type |-> "common_port", Port |-> Head(bs).HostPort,
                     Description |-> [NoDesc EXCEPT !.fmt = "Port %d is commonly used by %s",
                                                    !.port = Head(bs).HostPort,
                                                    !.label = commonPorts[Head(bs).HostPort]],
                     Bindings |-> <<Head(bs)>>])
            ELSE issues,
            Tail(bs))

\* severityOrder; the zero value for a key that is not in the map
severityOrder(sev) ==
    CASE sev = "error" -> 0 [] sev = "warning" -> 1 [] sev = "info" -> 2 [] OTHER -> 0

\* a slip: the comparison looks at the port only
Less_PortOnly(a, b) == a.Port < b.Port

\* the less function handed to sort.Slice
Less(a, b) ==
    IF severityOrder(a.Severity) # severityOrder(b.Severity)
    THEN severityOrder(a.Severity) < severityOrder(b.Severity)
    ELSE a.Port < b.Port

RemoveAt(s, i) == SubSeq(s, 1, i - 1) \o SubSeq(s, i + 1, Len(s))

\* sort.Slice: the sort is not stable, so the outcome is any arrangement of
\* the elements in which no element is less than one before it
RECURSIVE SortSlice(_)
SortSlice(s) ==
    IF s = <<>> THEN {<<>>}
    ELSE UNION { { <<s[i]>> \o t : t \in SortSlice(RemoveAt(s, i)) } :
                 i \in { k \in 1..Len(s) : \A j \in 1..Len(s) : ~Less(s[j], s[k]) } }

\* the orders in which a range over a map with key set S can visit the keys
Orders(S) == { f \in [1..Cardinality(S) -> S] : \A i, j \in 1..Cardinality(S) : f[i] = f[j] => i = j }

\* the issue list before the sort
Unsorted(issues, m, bs, order) == CommonLoop(PrivilegedLoop(CollisionLoop(issues, m, order), bs), bs)

----------------------------------------------------------------------------
(* Package profiles: LoadProfiles, parseComposeProfiles, DetectPortConflicts *)

\* the value of config before LoadProfiles has returned one, and when it
\* returned an error
NoConfig == [loaded |-> FALSE, Profiles |-> <<>>]

\* runtimeResult while it is nil, and rerun before the second scan
NoRuntime == [nil |-> TRUE, DockerRunning |-> FALSE, UsedPorts |-> <<>>, Conflicts |-> <<>>]
NoRun == [ran |-> FALSE, PortBindings |-> <<>>, Issues |-> <<>>]

\* strings.Split(s, sep) for a one-character separator
RECURSIVE Split(_, _)
Split(s, sep) ==
    IF \A i \in 1..Len(s) : s[i] # sep THEN <<s>>
    ELSE LET i == CHOOSE k \in 1..Len(s) : s[k] = sep /\ \A j \in 1..(k - 1) : s[j] # sep
         IN  <<SubSeq(s, 1, i - 1)>> \o Split(SubSeq(s, i + 1, Len(s)), sep)

\* fmt.Sprintf("%v", x) of a value under a key of a long-form mapping; a
\* value of another type stands for the boolean true
FmtV(x) ==
    CASE x.t = "int" -> FmtInt(x.i)
      [] x.t = "string" -> x.s
      [] OTHER -> <<"t", "r", "u", "e">>

\* the type switch of parseComposeProfiles: the text kept for one entry of
\* a ports list, <<>> when the entry is dropped and <<text>> otherwise
PortText(p) ==
    CASE p.type = "string" -> <<p.str>>
      [] p.type = "int" -> <<FmtInt(p.int)>>
      [] p.type = "map" ->
            IF p.published.t # "absent" /\ p.target.t # "absent"
            THEN << FmtV(p.published) \o <<":">> \o FmtV(p.target) >>
            ELSE <<>>
      [] OTHER -> <<>>

\* the loop over svc.Ports
RECURSIVE PortTexts(_)
PortTexts(ports) ==
    IF ports = <<>> THEN <<>> ELSE PortText(Head(ports)) \o PortTexts(Tail(ports))

\* "Add to appropriate profiles": ps goes to default when the service has no
\* profiles key, and to each profile it names otherwise
RECURSIVE AddToProfiles(_, _, _)
AddToProfiles(P, names, ps) ==
    IF names = <<>> THEN P
    ELSE AddToProfiles(MapAppend(P, Head(names), ps), Tail(names), ps)

\* the range over compose.Services, visiting the services in the order given
RECURSIVE parseComposeProfiles(_, _, _)
parseComposeProfiles(path, services, P) ==
    IF services = <<>> THEN P
    ELSE LET svc == Head(services)
             ps == [Name |-> svc.name, Ports |-> PortTexts(svc.ports), File |-> path]
         IN  parseComposeProfiles(path, Tail(services),
                IF svc.profiles = <<>>
                THEN MapAppend(P, "default", ps)
                ELSE AddToProfiles(P, svc.profiles, ps))

\* the orders in which a range over the services of a document can visit them
Visits(services) ==
    { [i \in 1..Len(services) |-> services[o[i]]] : o \in Orders(1..Len(services)) }

\* LoadProfiles from file k on, with the profiles P collected so far: the
\* configurations it can return.  Only the standard file names of the base
\* path are looked at; a file that cannot be parsed makes it return an error.
RECURSIVE LoadFrom(_, _, _)
LoadFrom(fs, k, P) ==
    IF k > Len(fs) THEN { [loaded |-> TRUE, Profiles |-> P] }
    ELSE IF ~fs[k].standard THEN LoadFrom(fs, k + 1, P)
    ELSE IF ~fs[k].readable THEN { NoConfig }
    ELSE UNION { LoadFrom(fs, k + 1, parseComposeProfiles(k, v, P)) : v \in Visits(fs[k].services) }

LoadProfiles(fs) == LoadFrom(fs, 1, [n \in {"default"} |-> <<>>])

\* a slip: the default profile is not part of the list
ProfileList_NoDefault(active) == active

\* profiles := append([]string{"default"}, activeProfiles...)
ProfileList(active) == <<"default">> \o active

\* extractHostPort: the host port text of a port specification
extractHostPort(portSpec) ==
    LET parts == Split(portSpec, ":")
    IN  CASE Len(parts) = 1 -> Split(parts[1], "/")[1]
          [] Len(parts) = 2 -> Split(parts[1], "/")[1]
          [] Len(parts) = 3 -> Split(parts[2], "/")[1]
          [] OTHER -> portSpec

\* the loop over svc.Ports of one service of profile profileName
RECURSIVE TrackPorts(_, _, _, _)
TrackPorts(m, svc, profileName, ports) ==
    IF ports = <<>> THEN m
    ELSE LET hostPort == extractHostPort(Head(ports))
         IN  TrackPorts(
                IF hostPort # <<>>
                THEN MapAppend(m, hostPort,
                        [Service |-> svc.Name, Profile |-> profileName, Port |-> Head(ports)])
                ELSE m,
                svc, profileName, Tail(ports))

\* the loop over profile.Services
RECURSIVE TrackServices(_, _, _)
TrackServices(m, profileName, svcs) ==
    IF svcs = <<>> THEN m
    ELSE TrackServices(TrackPorts(m, Head(svcs), profileName, Head(svcs).Ports),
                       profileName, Tail(svcs))

\* the loop over profiles: the port -> services mapping
RECURSIVE portServices(_, _, _)
portServices(m, P, profiles) ==
    IF profiles = <<>> THEN m
    ELSE portServices(
            IF Head(profiles) \in DOMAIN P
            THEN TrackServices(m, Head(profiles), P[Head(profiles)])
            ELSE m,
            P, Tail(profiles))

\* "Find conflicts": the range over portServices visits the keys in the order given
RECURSIVE FindConflicts(_, _)
FindConflicts(m, order) ==
    IF order = <<>> THEN <<>>
    ELSE (IF Len(m[Head(order)]) > 1
          THEN << [Port |-> Head(order), Services |-> m[Head(order)]] >>
          ELSE <<>>)
         \o FindConflicts(m, Tail(order))

\* DetectPortConflicts: the conflict lists it can return
DetectPortConflicts(P, active) ==
    LET m == portServices(<<>>, P, ProfileList(active))
    IN  { FindConflicts(m, order) : order \in Orders(DOMAIN m) }

----------------------------------------------------------------------------
(* Package cmd: runScan *)

\* the issue Scan appends for file k when parseComposeFile returns an error
ParseErrorIssue(k) ==
    [Severity |-> "warning", Type |-> "parse_error", Port |-> 0,
     Description |-> [NoDesc EXCEPT !.fmt = "Failed to parse %s: %v", !.file = k],
     Bindings |-> <<>>]

\* Scan, the loop over r.ComposeFiles from file k on
RECURSIVE ScanLoop(_, _, _)
ScanLoop(r, fs, k) ==
    IF k > Len(fs) THEN r
    ELSE ScanLoop(
            IF fs[k].readable
            THEN LET q == ParseLoop([PortBindings |-> r.PortBindings, PortMap |-> r.PortMap],
                                    Entries(Unmarshal(fs[k].services)), k)
                 IN  [PortBindings |-> q.PortBindings, PortMap |-> q.PortMap, Issues |-> r.Issues]
            ELSE [r EXCEPT !.Issues = Append(@, ParseErrorIssue(k))],
            fs, k + 1)

\* scanner.Scan(path): the results it can return for the compose files fs
ScanResults(fs) ==
    LET r == ScanLoop([PortBindings |-> <<>>, PortMap |-> <<>>, Issues |-> <<>>], fs, 1)
    IN  UNION { { [r EXCEPT !.Issues = s] :
                    s \in SortSlice(Unsorted(r.Issues, r.PortMap, r.PortBindings, order)) } :
                order \in Orders(DOMAIN r.PortMap) }

\* the issues runScan appends for the conflicts of the profile overlay; Port
\* and Bindings are not set
ProfileIssues(cs) ==
    [i \in 1..Len(cs) |->
        [Severity |-> "error", Type |-> "profile_collision", Port |-> 0,
         Description |-> [NoDesc EXCEPT !.fmt = "Profile conflict on port %s: multiple services",
                                        !.text = cs[i].Port],
         Bindings |-> <<>>]]

UpperLetters == <<"A", "B", "C", "D", "E", "F", "G", "H", "I", "J", "K", "L", "M",
                  "N", "O", "P", "Q", "R", "S", "T", "U", "V", "W", "X", "Y", "Z">>
LowerLetters == <<"a", "b", "c", "d", "e", "f", "g", "h", "i", "j", "k", "l", "m",
                  "n", "o", "p", "q", "r", "s", "t", "u", "v", "w", "x", "y", "z">>

\* strings.ToLower
ToLower(s) ==
    [i \in 1..Len(s) |->
        IF \E k \in 1..26 : UpperLetters[k] = s[i]
        THEN LowerLetters[CHOOSE k \in 1..26 : UpperLetters[k] = s[i]]
        ELSE s[i]]

\* strings.Contains
Contains(s, substr) ==
    \E i \in 0..(Len(s) - Len(substr)) : SubSeq(s, i + 1, i + Len(substr)) = substr

\* the characters of a service name
Chars(service) ==
    CASE service = "web" -> <<"w", "e", "b">>
      [] service = "api" -> <<"a", "p", "i">>

\* a running container: its name and its com.docker.compose.service label
Container(name, hasLabel, label) == [Name |-> name, HasLabel |-> hasLabel, Label |-> label]

isLikelyFromCompose(container, serviceName) ==
    \/ Contains(ToLower(container.Name), ToLower(Chars(serviceName)))
    \/ container.HasLabel /\ ToLower(container.Label) = ToLower(Chars(serviceName))

\* the loops over bindings and containers for one used port
ConflictsOn(p, bindings, containers) ==
    LET RECURSIVE Inner(_, _)
        Inner(b, cs) ==
            IF cs = <<>> THEN <<>>
            ELSE (IF ~isLikelyFromCompose(Head(cs), b.Service)
                  THEN << [Port |-> p, ComposeService |-> b.Service,
                           RuntimeInfo |-> Head(cs).Name, Type |-> "already_in_use"] >>
                  ELSE <<>>)
                 \o Inner(b, Tail(cs))
        RECURSIVE Outer(_)
        Outer(bs) == IF bs = <<>> THEN <<>> ELSE Inner(Head(bs), containers) \o Outer(Tail(bs))
    IN  Outer(bindings)

\* the range over runtimeResult.UsedPorts, visiting the ports in the order given
RECURSIVE CrossReference(_, _, _)
CrossReference(used, m, order) ==
    IF order = <<>> THEN <<>>
    ELSE (IF Head(order) \in DOMAIN m
          THEN ConflictsOn(Head(order), m[Head(order)], used[Head(order)])
          ELSE <<>>)
         \o CrossReference(used, m, Tail(order))

\* a slip: the error net.Listen returns for a port in use is not looked at
CanListen_ErrIgnored(p, used) == p \in 0..65535

\* net.Listen("tcp", ":port") succeeds: the port is a valid TCP port that
\* nothing on the host is bound to
CanListen(p, used) == p \in 0..65535 /\ p \notin used

\* the portAlternatives table of getPortAlternatives
portAlternatives(p) ==
    CASE p = 80 -> <<8080, 8000, 8081, 9080>>
      [] p = 443 -> <<8443, 4443, 9443>>
      [] p = 3000 -> <<3001, 3002, 3003>>
      [] p = 3306 -> <<3307, 3308, 33060>>
      [] p = 5432 -> <<5433, 5434, 54320>>
      [] p = 5000 -> <<5001, 5002, 5003>>
      [] p = 6379 -> <<6380, 6381, 6382>>
      [] p = 8080 -> <<8081, 8082, 8090, 9080>>
      [] p = 27017 -> <<27018, 27019, 27020>>
      [] OTHER -> <<>>

getPortAlternatives(p) == portAlternatives(p) \o <<p + 1000, p + 10000>>

\* FindFreePort(suggested, maxAttempts) from attempt i on: the first port
\* that can be listened on, 0 when there is none
RECURSIVE FindFreeFrom(_, _, _, _)
FindFreeFrom(suggested, maxAttempts, i, used) ==
    IF i >= maxAttempts THEN 0
    ELSE IF CanListen(suggested + i, used) THEN suggested + i
    ELSE FindFreeFrom(suggested, maxAttempts, i + 1, used)

FindFreePort(suggested, maxAttempts, used) == FindFreeFrom(suggested, maxAttempts, 0, used)

\* the loop over the alternatives: the first that can be listened on, 0 when none can
RECURSIVE FirstAlternative(_, _)
FirstAlternative(alts, used) ==
    IF alts = <<>> THEN 0
    ELSE IF CanListen(Head(alts), used) THEN Head(alts)
    ELSE FirstAlternative(Tail(alts), used)

\* suggestions[port] = alt, for an alt other than 0
Suggest(m, p, alt) ==
    IF alt = 0 THEN m
    ELSE [x \in DOMAIN m \cup {p} |-> IF x = p THEN alt ELSE m[x]]

\* the alternative found for one conflicting port, 0 when none is found
AlternativeFor(p, first, used) ==
    IF first # 0 THEN first ELSE FindFreePort(p + 1, 100, used)

\* SuggestFreePorts: the loop over conflictPorts
RECURSIVE SuggestFreePorts(_, _, _)
SuggestFreePorts(m, conflictPorts, used) ==
    IF conflictPorts = <<>> THEN m
    ELSE SuggestFreePorts(
            Suggest(m, Head(conflictPorts),
                    AlternativeFor(Head(conflictPorts),
                                   FirstAlternative(getPortAlternatives(Head(conflictPorts)), used),
                                   used)),
            Tail(conflictPorts), used)

\* conflictPorts: the ports of the collision issues, each once, in the order of the issues
RECURSIVE ConflictPorts(_, _)
ConflictPorts(issues, seen) ==
    IF issues = <<>> THEN <<>>
    ELSE IF Head(issues).Type = "collision" /\ Head(issues).Port \notin seen
         THEN <<Head(issues).Port>> \o ConflictPorts(Tail(issues), seen \cup {Head(issues).Port})
         ELSE ConflictPorts(Tail(issues), seen)

\* "Suggest alternative ports" of runScan
Suggestions(suggest, issues, used) ==
    IF suggest /\ Len(issues) > 0
    THEN SuggestFreePorts(<<>>, ConflictPorts(issues, {}), used)
    ELSE <<>>

\* a slip: only issues of severity error count
HasIssues_ErrorsOnly(issues) == \E i \in 1..Len(issues) : issues[i].Severity = "error"

\* Result.HasIssues
HasIssues(issues) == Len(issues) > 0

\* the end of runScan: the json case returns the encoder's result before
\* the strict check; the other formats reach it
ExitCode(strict, format, hasIssues) ==
    IF format = "json" THEN 0
    ELSE IF strict /\ hasIssues THEN 1 ELSE 0

----------------------------------------------------------------------------
(* Inputs. *)

\* the short syntax: [IP:]HOST[:CONTAINER][/proto]; cp < 0 and proto = <<>> leave the part out
PortStr(ip, hp, cp, proto) ==
    (IF ip = <<>> THEN <<>> ELSE ip \o <<":">>)
    \o FmtNat(hp)
    \o (IF cp < 0 THEN <<>> ELSE <<":">> \o FmtNat(cp))
    \o (IF proto = <<>> THEN <<>> ELSE <<"/">> \o proto)

Str_invalid == <<"i", "n", "v", "a", "l", "i", "d">>

\* the port entries the scanned files are made of: a port of the common-port
\* table under 0.0.0.0 and under two specific addresses, and the highest
\* privileged port, outside the table, under the empty address
ScanPorts ==
    { YString(PortStr(Str_wild, 8080, 80, <<>>)),    \* "0.0.0.0:8080:80"
      YString(PortStr(Str_lo, 8080, 80, <<>>)),      \* "127.0.0.1:8080:80"
      YString(PortStr(Str_lan, 8080, 80, <<>>)),     \* "192.168.1.1:8080:80"
      YString(PortStr(<<>>, 1023, 80, <<>>)) }       \* "1023:80"

\* port entries that differ in protocol only, next to an unprivileged one
ProtoPorts ==
    { YString(PortStr(<<>>, 53, 53, Str_tcp)),       \* "53:53/tcp"
      YString(PortStr(<<>>, 53, 53, Str_udp)),       \* "53:53/udp"
      YString(PortStr(<<>>, 9000, 53, Str_udp)) }    \* "9000:53/udp"

\* the port entry and the expose lists of the documents with expose keys
ExposePorts == { YString(PortStr(<<>>, 8080, 80, <<>>)) }     \* "8080:80"

ExposeLists ==
    { <<>>,
      << YString(PortStr(<<>>, 8080, -1, <<>>)) >> }           \* expose: ["8080"]

\* the documents have no profiles keys
NoTags == { <<>> }

Str_empty == <<>>
Str_range == <<"8", "0", "0", "0", "-", "8", "0", "0", "5", ":", "8", "0", "0", "0", "-", "8", "0", "0", "5">>
Str_env == <<"$", "{", "H", "O", "S", "T", "_", "P", "O", "R", "T", ":", "-", "8", "0", "8", "0", "}", ":", "8", "0">>
Str_ipv6 == <<"[", ":", ":", "1", "]", ":", "8", "0", "8", "0", ":", "8", "0">>
Str_sctp == <<"s", "c", "t", "p">>
Str_upper == <<"8", "0", ":", "8", "0", "/", "T", "C", "P">>
Str_noCont == <<"8", "0", ":">>
Str_noHost == <<":", "8", "0">>
Str_longOctet == <<"1", "2", "3", "4", ".", "0", ".", "0", ".", "1", ":", "8", "0", ":", "8", "0">>
Str_ipOnly == <<"1", "2", "7", ".", "0", ".", "0", ".", "1">>
Str_threeParts == <<"8", "0", ":", "8", "0", ":", "8", "0">>
Str_lead == <<"0", "8", "0", ":", "8", "0">>
Str_zeros == <<"0", "0", ":", "8", "0">>
Str_neg == <<"-", "8", "0">>
Str_plus == <<"+", "8", "0">>
Str_space == <<" ", "8", "0">>
Str_abc == <<"a", "b", "c">>

\* declarations that match no accepted shape
Malformed ==
    { YString(Str_invalid), YString(Str_empty), YString(Str_range), YString(Str_env),
      YString(Str_ipv6), YOther }

\* declarations that resolve to host port 0
ZeroDecls ==
    { YString(PortStr(<<>>, 0, 80, <<>>)),           \* "0:80"
      YString(PortStr(<<>>, 0, -1, <<>>)),           \* "0"
      YInt(0),
      YMap(IntV(80), Absent, Absent, Absent) }       \* {target: 80}

\* the port entries of a scan over rejected declarations, with two accepted ones
RejectPorts ==
    Malformed \cup ZeroDecls \cup
    { YString(PortStr(<<>>, 80, 80, <<>>)),          \* "80:80"
      YString(PortStr(Str_lo, 8080, 80, <<>>)) }     \* "127.0.0.1:8080:80"

\* the components the short-syntax arguments of parsePort are formatted from
ShortIPs == { <<>>, Str_wild, Str_lo, Str_lan }
ShortHostPorts == { 0, 7, 80, 8080, 65535 }
\* -1: no container part
ShortContainerPorts == { -1, 0, 80, 8080 }
ShortProtos == { <<>>, Str_tcp, Str_udp, Str_sctp }

ShortStrings ==
    { PortStr(x[1], x[2], x[3], x[4]) :
        x \in ShortIPs \X ShortHostPorts \X ShortContainerPorts \X ShortProtos }

OddStrings ==
    { Str_invalid, Str_empty, Str_range, Str_env, Str_ipv6, Str_upper, Str_noCont, Str_noHost,
      Str_longOctet, Str_ipOnly, Str_threeParts, Str_lead, Str_zeros, Str_neg, Str_space }

LongTargets == { Absent, IntV(0), IntV(80), StrV(FmtNat(80)), OtherV }
LongPublished ==
    { Absent, IntV(0), IntV(80), IntV(8080), IntV(-80), StrV(FmtNat(8080)), StrV(FmtNat(80)),
      StrV(<<"0">> \o FmtNat(8080)), StrV(Str_plus), StrV(Str_neg), StrV(Str_space),
      StrV(Str_abc), StrV(Str_empty), OtherV }
LongProtocols == { Absent, StrV(Str_tcp), StrV(Str_udp), StrV(Str_sctp), OtherV }
LongHostIPs == { Absent, StrV(Str_lo), StrV(Str_wild), StrV(Str_empty) }

\* the arguments parsePort is called with
ParseValues ==
    { YString(x) : x \in ShortStrings \cup OddStrings }
    \cup { YInt(n) : n \in { -80, 0, 80, 8080 } }
    \cup { YMap(x[1], x[2], x[3], x[4]) :
             x \in LongTargets \X LongPublished \X LongProtocols \X LongHostIPs }
    \cup { YOther }

\* the orders in which a range over the Services map can visit services
\* that have port entries: the arrangements of any subset of Services
NameSeqs == UNION { Orders(T) : T \in SUBSET Services }

SumTo(lens, k) ==
    LET RECURSIVE Sum(_)
        Sum(i) == IF i = 0 THEN 0 ELSE lens[i] + Sum(i - 1)
    IN  Sum(k)

\* the decoded services of a file: service ns[i] has the next lens[i] entries
\* of flat as its ports list.  A service without port entries is not named
\* in ns: no loop body runs for it.
Blocks(ns, lens, flat) ==
    [i \in 1..Len(ns) |->
        [name |-> ns[i],
         ports |-> SubSeq(flat, SumTo(lens, i - 1) + 1, SumTo(lens, i))]]

\* the services of a YAML document: service ns[i] has the next lens[i]
\* entries of flat as its ports list, ex[i] as its expose list and tg[i] as
\* its profiles list
Document(ns, lens, flat, ex, tg) ==
    [i \in 1..Len(ns) |->
        [name |-> ns[i],
         ports |-> SubSeq(flat, SumTo(lens, i - 1) + 1, SumTo(lens, i)),
         expose |-> ex[i],
         profiles |-> tg[i]]]

NumEntries(fs) ==
    LET RECURSIVE Sum(_)
        Sum(q) == IF q = <<>> THEN 0 ELSE Len(Entries(Head(q).services)) + Sum(Tail(q))
    IN  Sum(fs)

\* the documents with at most n port entries in all, every named service
\* having at least lo of them
Docs(decls, exposes, tags, lo, n) ==
    UNION { UNION { { Document(ns, lens, flat, ex, tg) :
                        flat \in [1..SumTo(lens, Len(ns)) -> decls],
                        ex \in [1..Len(ns) -> exposes],
                        tg \in [1..Len(ns) -> tags] } :
                    lens \in { l \in [1..Len(ns) -> lo..n] : SumTo(l, Len(ns)) <= n } } :
            ns \in NameSeqs }

\* the compose files a directory can hold in one place: unreadable, or a
\* document of at most n entries; standard says whether the file has one of
\* the four standard names in the base path
FilesOf(decls, tags, standards, n) ==
    { [readable |-> FALSE, standard |-> st, services |-> <<>>] : st \in standards }
    \cup { [readable |-> TRUE, standard |-> st, services |-> doc] :
             st \in standards, doc \in Docs(decls, {<<>>}, tags, 1, n) }

\* the directories of at most k compose files and n port entries, in the
\* order Scan discovers the files: the standard names of the base path first
RECURSIVE Dirs(_, _, _, _, _)
Dirs(decls, tags, standards, k, n) ==
    IF k = 0 THEN { <<>> }
    ELSE LET prev == Dirs(decls, tags, standards, k - 1, n)
         IN  prev \cup
             UNION { { Append(d, f) :
                         f \in { g \in FilesOf(decls, tags, standards, n - NumEntries(d)) :
                                    g.standard => \A i \in 1..Len(d) : d[i].standard } } :
                     d \in { x \in prev : Len(x) = k - 1 } }

\* the port entries, the profiles keys and the --profile flags of the
\* profile overlay
ProfilePorts ==
    { YString(PortStr(<<>>, 9090, 80, <<>>)),        \* "9090:80"
      YString(PortStr(Str_lo, 9090, 8080, <<>>)),    \* "127.0.0.1:9090:8080"
      YString(PortStr(<<>>, 9091, 80, <<>>)) }       \* "9091:80"

\* port entries parsePort rejects, next to an accepted one, and the profiles
\* keys and --profile flags they are read under
RejectedProfilePorts ==
    { YString(PortStr(<<>>, 0, 80, <<>>)),           \* "0:80"
      YString(Str_env),                              \* "${HOST_PORT:-8080}:80"
      YString(Str_invalid),                          \* "invalid"
      YString(PortStr(<<>>, 9090, 80, <<>>)) }       \* "9090:80"

RejectedTagLists == { <<>>, <<"dev">> }

RejectedActiveLists == { <<>>, <<"dev">> }

TagLists == { <<>>, <<"dev">>, <<"dev", "tools">> }

ActiveLists == { <<>>, <<"dev">>, <<"tools">>, <<"dev", "tools">>, <<"dev", "dev">>, <<"default">> }

\* the port entries, the profiles keys and the flags of the scan command
CmdPorts ==
    { YString(PortStr(<<>>, 80, 80, <<>>)),          \* "80:80"
      YString(PortStr(<<>>, 9000, 80, <<>>)) }       \* "9000:80"

CmdTags == { <<>>, <<"dev">> }

CmdActive == { <<>>, <<"dev">>, <<"tools">> }

Formats == { "text", "json", "markdown" }

\* what runtime.ScanRuntime can return: an error (a nil result), a result
\* without Docker, or a result with the containers that use host port 9000
ScanRuntimeOutcomes ==
    { NoRuntime,
      [nil |-> FALSE, DockerRunning |-> FALSE, UsedPorts |-> <<>>, Conflicts |-> <<>>] }
    \cup { [nil |-> FALSE, DockerRunning |-> TRUE, UsedPorts |-> u, Conflicts |-> <<>>] :
             u \in { <<>>,
                     [p \in {9000} |-> << Container(<<"d", "b">>, FALSE, <<>>) >>],
                     [p \in {9000} |-> << Container(<<"p", "-", "W", "e", "b", "-", "1">>, TRUE,
                                                  <<"w", "e", "b">>) >>] } }

\* the port entries of a scan with --suggest: two ports of the alternatives
\* table, the second the first alternative of the first
SuggestPorts ==
    { YString(PortStr(<<>>, 80, 80, <<>>)),          \* "80:80"
      YString(PortStr(<<>>, 8080, 80, <<>>)) }       \* "8080:80"

\* the host ports other processes are bound to while the command runs
HostStates == { {}, {8080}, {8000, 8080} }

\* the port entries of the files that are scanned twice: unprivileged, so
\* that no two issues of a scan have the same severity and port
TwicePorts ==
    { YString(PortStr(Str_wild, 8080, 80, <<>>)),    \* "0.0.0.0:8080:80"
      YString(PortStr(Str_lo, 8080, 80, <<>>)),      \* "127.0.0.1:8080:80"
      YString(PortStr(<<>>, 9000, -1, <<>>)) }       \* "9000"

\* port entries with a negative host port, as an integer entry and as the
\* published key of the long syntax, next to a positive one
NegPorts ==
    { YInt(-80),                                       \* -80
      YMap(IntV(80), IntV(-80), Absent, Absent),       \* {target: 80, published: -80}
      YString(PortStr(<<>>, 8080, 80, <<>>)) }         \* "8080:80"

----------------------------------------------------------------------------
(* Scan *)

\* the state of the command line and of the profiles package when only the
\* scanner runs
CmdIdle ==
    /\ strictMode = FALSE
    /\ outputFormat = "text"
    /\ runtimeScan = FALSE
    /\ activeProfiles = <<>>
    /\ config = NoConfig
    /\ conflicts = <<>>
    /\ runtimeResult = NoRuntime
    /\ exitCode = -1
    /\ rerun = NoRun
    /\ suggestPorts = FALSE
    /\ inUse = {}
    /\ suggestions = <<>>
    /\ extracted = <<>>

NoCall == [value |-> YOther, service |-> "", file |-> 0]

Init ==
    /\ pc = "parsing"
    /\ files = <<>>
    /\ PortBindings = <<>>
    /\ PortMap = <<>>
    /\ Issues = <<>>
    /\ err = "unset"
    /\ port = NoCall
    /\ binding = <<>>
    /\ CmdIdle

\* one iteration of the loop over r.ComposeFiles: parseComposeFile reads a
\* file that decodes to blocks and returns nil
ParseFileOK(decls, maxEntries) ==
    /\ pc = "parsing"
    /\ Len(files) < MaxFiles
    /\ \E ns \in NameSeqs :
       \E lens \in [1..Len(ns) -> 1..maxEntries] :
          /\ NumEntries(files) + SumTo(lens, Len(ns)) <= maxEntries
          /\ \E flat \in [1..SumTo(lens, Len(ns)) -> decls] :
                LET blocks == Blocks(ns, lens, flat)
                    path == Len(files) + 1
                    r == ParseLoop([PortBindings |-> PortBindings, PortMap |-> PortMap],
                                   Entries(blocks), path)
                IN  /\ PortBindings' = r.PortBindings
                    /\ PortMap' = r.PortMap
                    /\ files' = Append(files, [readable |-> TRUE, services |-> blocks])
    /\ UNCHANGED <<pc, Issues, err, port, binding>>
    /\ UNCHANGED cmdVars

\* one iteration of the loop over r.ComposeFiles: parseComposeFile reads a
\* YAML document whose services carry ports, expose and profiles keys,
\* decodes it and returns nil
ParseFileDoc(decls, exposes, tags, maxEntries) ==
    /\ pc = "parsing"
    /\ Len(files) < MaxFiles
    /\ \E ns \in NameSeqs :
       \E lens \in [1..Len(ns) -> 0..maxEntries] :
          /\ NumEntries(files) + SumTo(lens, Len(ns)) <= maxEntries
          /\ \E flat \in [1..SumTo(lens, Len(ns)) -> decls] :
             \E ex \in [1..Len(ns) -> exposes] :
             \E tg \in [1..Len(ns) -> tags] :
                LET doc == Document(ns, lens, flat, ex, tg)
                    path == Len(files) + 1
                    r == ParseLoop([PortBindings |-> PortBindings, PortMap |-> PortMap],
                                   Entries(Unmarshal(doc)), path)
                IN  /\ PortBindings' = r.PortBindings
                    /\ PortMap' = r.PortMap
                    /\ files' = Append(files, [readable |-> TRUE, services |-> doc])
    /\ UNCHANGED <<pc, Issues, err, port, binding>>
    /\ UNCHANGED cmdVars

\* a slip: Scan gives up at the first file it cannot parse and returns the error
ParseFileErr_Abort ==
    /\ pc = "parsing"
    /\ Len(files) < MaxFiles
    /\ files' = Append(files, [readable |-> FALSE, services |-> <<>>])
    /\ pc' = "done"
    /\ err' = "parse error"
    /\ UNCHANGED <<PortBindings, PortMap, Issues, port, binding>>
    /\ UNCHANGED cmdVars

\* one iteration of the loop over r.ComposeFiles: os.ReadFile or
\* yaml.Unmarshal fails, parseComposeFile returns the error before its loops
ParseFileErr ==
    /\ pc = "parsing"
    /\ Len(files) < MaxFiles
    /\ Issues' = Append(Issues,
            [Severity |-> "warning", Type |-> "parse_error", Port |-> 0,
             Description |-> [NoDesc EXCEPT !.fmt = "Failed to parse %s: %v", !.file = Len(files) + 1],
             Bindings |-> <<>>])
    /\ files' = Append(files, [readable |-> FALSE, services |-> <<>>])
    /\ UNCHANGED <<pc, PortBindings, PortMap, err, port, binding>>
    /\ UNCHANGED cmdVars

\* the loop is over: r.analyze() and return r, nil
Analyze ==
    /\ pc = "parsing"
    /\ \E order \in Orders(DOMAIN PortMap) :
          Issues' \in SortSlice(Unsorted(Issues, PortMap, PortBindings, order))
    /\ pc' = "done"
    /\ err' = "nil"
    /\ UNCHANGED <<files, PortBindings, PortMap, port, binding>>
    /\ UNCHANGED cmdVars

Next ==
    \/ ParseFileOK(ScanPorts, MaxEntries)
    \/ ParseFileErr
    \/ Analyze

Spec == Init /\ [][Next]_vars

\* the same scan over files made of the declarations parsePort rejects
NextReject ==
    \/ ParseFileOK(RejectPorts, MaxRejectEntries)
    \/ ParseFileErr
    \/ Analyze

SpecReject == Init /\ [][NextReject]_vars

\* the same scan over files whose entries name a protocol
NextProto ==
    \/ ParseFileOK(ProtoPorts, MaxProtoEntries)
    \/ ParseFileErr
    \/ Analyze

SpecProto == Init /\ [][NextProto]_vars

\* the same scan over documents whose services have expose lists
NextExpose ==
    \/ ParseFileDoc(ExposePorts, ExposeLists, NoTags, MaxExposeEntries)
    \/ ParseFileErr
    \/ Analyze

SpecExpose == Init /\ [][NextExpose]_vars

\* the same scan over declarations with negative ports
NextNeg ==
    \/ ParseFileOK(NegPorts, MaxNegEntries)
    \/ ParseFileErr
    \/ Analyze

SpecNeg == Init /\ [][NextNeg]_vars

----------------------------------------------------------------------------
(* parsePort called on its own *)

InitParse ==
    /\ pc = "call"
    /\ port \in { [value |-> v, service |-> sv, file |-> f] :
                    v \in ParseValues, sv \in Services, f \in 1..MaxFiles }
    /\ binding = <<>>
    /\ files = <<>>
    /\ PortBindings = <<>>
    /\ PortMap = <<>>
    /\ Issues = <<>>
    /\ err = "unset"
    /\ CmdIdle

ParsePortCall ==
    /\ pc = "call"
    /\ binding' = parsePort(port.value, port.service, port.file)
    /\ pc' = "returned"
    /\ UNCHANGED <<files, PortBindings, PortMap, Issues, err, port>>
    /\ UNCHANGED cmdVars

NextParse == ParsePortCall

SpecParse == InitParse /\ [][NextParse]_vars

\* a port string is given both to parsePort and to extractHostPort
InitExtract ==
    /\ pc = "call"
    /\ port \in { [value |-> YString(x), service |-> sv, file |-> f] :
                    x \in ShortStrings \cup OddStrings, sv \in Services, f \in 1..MaxFiles }
    /\ binding = <<>>
    /\ files = <<>>
    /\ PortBindings = <<>>
    /\ PortMap = <<>>
    /\ Issues = <<>>
    /\ err = "unset"
    /\ CmdIdle

ExtractHostPortCall ==
    /\ pc = "call"
    /\ binding' = parsePort(port.value, port.service, port.file)
    /\ extracted' = <<extractHostPort(port.value.str)>>
    /\ pc' = "returned"
    /\ UNCHANGED <<files, PortBindings, PortMap, Issues, err, port, strictMode, outputFormat,
                   runtimeScan, activeProfiles, config, conflicts, runtimeResult, exitCode, rerun,
                   suggestPorts, inUse, suggestions>>

NextExtract == ExtractHostPortCall

SpecExtract == InitExtract /\ [][NextExtract]_vars

----------------------------------------------------------------------------
(* LoadProfiles and DetectPortConflicts called on their own *)

InitProfiles ==
    /\ pc = "load"
    /\ files \in Dirs(ProfilePorts, TagLists, {TRUE}, MaxProfileFiles, MaxProfileEntries)
    /\ activeProfiles \in ActiveLists
    /\ PortBindings = <<>>
    /\ PortMap = <<>>
    /\ Issues = <<>>
    /\ err = "unset"
    /\ port = NoCall
    /\ binding = <<>>
    /\ strictMode = FALSE
    /\ outputFormat = "text"
    /\ runtimeScan = FALSE
    /\ config = NoConfig
    /\ conflicts = <<>>
    /\ runtimeResult = NoRuntime
    /\ exitCode = -1
    /\ rerun = NoRun
    /\ suggestPorts = FALSE
    /\ inUse = {}
    /\ suggestions = <<>>
    /\ extracted = <<>>

\* LoadProfiles(basePath)
LoadProfilesCall ==
    /\ pc = "load"
    /\ config' \in LoadProfiles(files)
    /\ pc' = IF config'.loaded THEN "loaded" ELSE "failed"
    /\ err' = IF config'.loaded THEN "nil" ELSE "parse error"
    /\ UNCHANGED <<files, PortBindings, PortMap, Issues, port, binding, strictMode, outputFormat,
                   runtimeScan, activeProfiles, conflicts, runtimeResult, exitCode, rerun,
                   suggestPorts, inUse, suggestions, extracted>>

\* profileConfig.DetectPortConflicts(activeProfiles)
DetectPortConflictsCall ==
    /\ pc = "loaded"
    /\ conflicts' \in DetectPortConflicts(config.Profiles, activeProfiles)
    /\ pc' = "detected"
    /\ UNCHANGED <<files, PortBindings, PortMap, Issues, err, port, binding, strictMode,
                   outputFormat, runtimeScan, activeProfiles, config, runtimeResult, exitCode, rerun,
                   suggestPorts, inUse, suggestions, extracted>>

NextProfiles ==
    \/ LoadProfilesCall
    \/ DetectPortConflictsCall

SpecProfiles == InitProfiles /\ [][NextProfiles]_vars

\* the same calls over files with port entries that parsePort rejects
InitRejectedProfiles ==
    /\ pc = "load"
    /\ files \in Dirs(RejectedProfilePorts, RejectedTagLists, {TRUE}, MaxProfileFiles, MaxRejectedProfileEntries)
    /\ activeProfiles \in RejectedActiveLists
    /\ PortBindings = <<>>
    /\ PortMap = <<>>
    /\ Issues = <<>>
    /\ err = "unset"
    /\ port = NoCall
    /\ binding = <<>>
    /\ strictMode = FALSE
    /\ outputFormat = "text"
    /\ runtimeScan = FALSE
    /\ config = NoConfig
    /\ conflicts = <<>>
    /\ runtimeResult = NoRuntime
    /\ exitCode = -1
    /\ rerun = NoRun
    /\ suggestPorts = FALSE
    /\ inUse = {}
    /\ suggestions = <<>>
    /\ extracted = <<>>

SpecRejectedProfiles == InitRejectedProfiles /\ [][NextProfiles]_vars

----------------------------------------------------------------------------
(* The scan command *)

InitCmd ==
    /\ pc = "cmd"
    /\ files \in Dirs(CmdPorts, CmdTags, BOOLEAN, MaxProfileFiles, MaxProfileEntries)
    /\ strictMode \in BOOLEAN
    /\ outputFormat \in Formats
    /\ runtimeScan \in BOOLEAN
    /\ activeProfiles \in CmdActive
    /\ PortBindings = <<>>
    /\ PortMap = <<>>
    /\ Issues = <<>>
    /\ err = "unset"
    /\ port = NoCall
    /\ binding = <<>>
    /\ config = NoConfig
    /\ conflicts = <<>>
    /\ runtimeResult = NoRuntime
    /\ exitCode = -1
    /\ rerun = NoRun
    /\ suggestPorts = FALSE
    /\ inUse = {}
    /\ suggestions = <<>>
    /\ extracted = <<>>

\* runScan, from the call of scanner.Scan to the exit of the process
RunScan ==
    /\ pc = "cmd"
    /\ \E result \in ScanResults(files) :
       \E profileConfig \in (IF Len(activeProfiles) > 0 THEN LoadProfiles(files) ELSE { NoConfig }) :
       \E cs \in (IF profileConfig.loaded
                  THEN DetectPortConflicts(profileConfig.Profiles, activeProfiles)
                  ELSE { <<>> }) :
       \E rt \in (IF runtimeScan THEN ScanRuntimeOutcomes ELSE { NoRuntime }) :
       \E order \in Orders(DOMAIN rt.UsedPorts) :
          LET issues == result.Issues \o ProfileIssues(cs)
              rtr == IF ~rt.nil /\ rt.DockerRunning
                     THEN [rt EXCEPT !.Conflicts = CrossReference(rt.UsedPorts, result.PortMap, order)]
                     ELSE rt
              hasIssues == HasIssues(issues) \/ (~rtr.nil /\ Len(rtr.Conflicts) > 0)
          IN  /\ PortBindings' = result.PortBindings
              /\ PortMap' = result.PortMap
              /\ Issues' = issues
              /\ config' = profileConfig
              /\ conflicts' = cs
              /\ runtimeResult' = rtr
              /\ suggestions' = Suggestions(suggestPorts, issues, inUse)
              /\ exitCode' = ExitCode(strictMode, outputFormat, hasIssues)
    /\ err' = "nil"
    /\ pc' = "exited"
    /\ UNCHANGED <<files, port, binding, strictMode, outputFormat, runtimeScan, activeProfiles, rerun,
                   suggestPorts, inUse, extracted>>

NextCmd == RunScan

SpecCmd == InitCmd /\ [][NextCmd]_vars

\* the scan command with or without --suggest, on a host with ports in use
InitSuggest ==
    /\ pc = "cmd"
    /\ files \in Dirs(SuggestPorts, NoTags, {TRUE}, MaxSuggestFiles, MaxSuggestEntries)
    /\ strictMode = FALSE
    /\ outputFormat = "text"
    /\ runtimeScan = FALSE
    /\ activeProfiles = <<>>
    /\ suggestPorts \in BOOLEAN
    /\ inUse \in HostStates
    /\ PortBindings = <<>>
    /\ PortMap = <<>>
    /\ Issues = <<>>
    /\ err = "unset"
    /\ port = NoCall
    /\ binding = <<>>
    /\ config = NoConfig
    /\ conflicts = <<>>
    /\ runtimeResult = NoRuntime
    /\ exitCode = -1
    /\ rerun = NoRun
    /\ suggestions = <<>>
    /\ extracted = <<>>

SpecSuggest == InitSuggest /\ [][NextCmd]_vars

----------------------------------------------------------------------------
(* Scan called twice on the same files *)

\* the same files with the services of each in any of the orders a range
\* over the Services map can visit them
RECURSIVE AllVisits(_)
AllVisits(fs) ==
    IF fs = <<>> THEN { <<>> }
    ELSE { << [Head(fs) EXCEPT !.services = v] >> \o t :
             v \in Visits(Head(fs).services), t \in AllVisits(Tail(fs)) }

\* a second Scan of the files of the first
Rescan ==
    /\ pc = "done"
    /\ ~rerun.ran
    /\ \E fs \in AllVisits(files) :
       \E result \in ScanResults(fs) :
          rerun' = [ran |-> TRUE, PortBindings |-> result.PortBindings, Issues |-> result.Issues]
    /\ UNCHANGED <<pc, files, PortBindings, PortMap, Issues, err, port, binding, strictMode,
                   outputFormat, runtimeScan, activeProfiles, config, conflicts, runtimeResult,
                   exitCode, suggestPorts, inUse, suggestions, extracted>>

NextTwice ==
    \/ ParseFileOK(TwicePorts, MaxTwiceEntries)
    \/ Analyze
    \/ Rescan

SpecTwice == Init /\ [][NextTwice]_vars

----------------------------------------------------------------------------
(* Vocabulary of the properties. *)

IssueIdx == 1..Len(Issues)
BindingIdx == 1..Len(PortBindings)

WildcardAddr(b) == b.HostIP \in { <<>>, Str_wild }

HostPortsBound == { PortBindings[k].HostPort : k \in BindingIdx }
OnPort(p) == SelectSeq(PortBindings, LAMBDA b : b.HostPort = p)
NumWild(p) == Cardinality({ k \in BindingIdx : PortBindings[k].HostPort = p /\ WildcardAddr(PortBindings[k]) })
NumSpecific(p) == Cardinality({ k \in BindingIdx : PortBindings[k].HostPort = p /\ ~WildcardAddr(PortBindings[k]) })

IssuesOf(type, p) == { i \in IssueIdx : Issues[i].Type = type /\ Issues[i].Port = p }
IssuesOfType(type) == { i \in IssueIdx : Issues[i].Type = type }

CommonTable == { 22, 25, 53, 80, 443, 3306, 5432, 6379, 8080, 27017 }

Rank(sev) == CASE sev = "error" -> 0 [] sev = "warning" -> 1 [] sev = "info" -> 2

\* the bindings the entries of the files read so far produce, each parsed on its own
FileBindings(f, path) ==
    LET es == Entries(f.services)
        RECURSIVE Cat(_)
        Cat(k) == IF k = 0 THEN <<>> ELSE Cat(k - 1) \o parsePort(es[k].port, es[k].service, path)
    IN  Cat(Len(es))

RECURSIVE ExpectedBindings(_, _)
ExpectedBindings(fs, k) ==
    IF k = 0 THEN <<>> ELSE ExpectedBindings(fs, k - 1) \o FileBindings(fs[k], k)

\* the entries read so far, as <<file, entry>> pairs
EntriesRead ==
    { <<f, e>> \in (1..Len(files)) \X (1..MaxEntries + MaxRejectEntries) :
        e <= Len(Entries(files[f].services)) }
EntryAt(fe) == Entries(files[fe[1]].services)[fe[2]]
DeclAt(fe) == EntryAt(fe).port

----------------------------------------------------------------------------
(* C1: when analyze has completed, every host port bound by at least two   *)
(* wildcard bindings, or by a wildcard and a specific-address binding, has *)
(* exactly one collision issue; it has severity error and carries all the  *)
(* bindings of that port, from whichever files they come.                  *)
C1_CollisionPerPort ==
    pc = "done" =>
        \A p \in HostPortsBound :
            (NumWild(p) >= 2 \/ (NumWild(p) >= 1 /\ NumSpecific(p) >= 1)) =>
                /\ Cardinality(IssuesOf("collision", p)) = 1
                /\ \A i \in IssuesOf("collision", p) :
                      /\ Issues[i].Severity = "error"
                      /\ Issues[i].Bindings = OnPort(p)

\* a collision between a wildcard and a specific binding of two different files
C1_Witness ==
    /\ pc = "done"
    /\ \E i \in IssueIdx :
          /\ Issues[i].Type = "collision"
          /\ \E a, b \in 1..Len(Issues[i].Bindings) :
                /\ WildcardAddr(Issues[i].Bindings[a])
                /\ ~WildcardAddr(Issues[i].Bindings[b])
                /\ Issues[i].Bindings[a].File # Issues[i].Bindings[b].File

(* C2: when analyze has completed, every host port with two or more        *)
(* bindings, all on specific addresses, has a potential_collision issue of *)
(* severity warning and no collision issue.                                *)
C2_PotentialCollision ==
    pc = "done" =>
        \A p \in HostPortsBound :
            (NumWild(p) = 0 /\ NumSpecific(p) >= 2) =>
                /\ IssuesOf("potential_collision", p) # {}
                /\ \A i \in IssuesOf("potential_collision", p) : Issues[i].Severity = "warning"
                /\ IssuesOf("collision", p) = {}

\* two bindings of one port on two distinct specific addresses
C2_Witness ==
    /\ pc = "done"
    /\ \E i \in IssueIdx :
          /\ Issues[i].Type = "potential_collision"
          /\ \E a, b \in 1..Len(Issues[i].Bindings) :
                Issues[i].Bindings[a].HostIP # Issues[i].Bindings[b].HostIP

(* C3: a declaration that resolves to host port 0 yields no Binding: in    *)
(* every state of a scan no binding of the list or of the index has host   *)
(* port 0, 0 is no key of the index, and no collision or                   *)
(* potential_collision issue is reported for port 0.                       *)
C3_NoZeroPort ==
    /\ \A k \in BindingIdx : PortBindings[k].HostPort # 0
    /\ 0 \notin DOMAIN PortMap
    /\ \A p \in DOMAIN PortMap : \A k \in 1..Len(PortMap[p]) : PortMap[p][k].HostPort # 0
    /\ IssuesOf("collision", 0) = {}
    /\ IssuesOf("potential_collision", 0) = {}
    /\ Len(PortBindings) <= Cardinality({ x \in EntriesRead : DeclAt(x) \notin ZeroDecls })

\* a finished scan that read two declarations resolving to host port 0
C3_Witness ==
    /\ pc = "done"
    /\ \E x, y \in EntriesRead : x # y /\ DeclAt(x) \in ZeroDecls /\ DeclAt(y) \in ZeroDecls

(* C4: when analyze has completed, there is one privileged issue, of       *)
(* severity warning, for each binding with 0 < hostPort < 1024 (one per    *)
(* binding, also next to a collision issue on the same port) and none for  *)
(* any other binding: the privileged issues are as many as those bindings. *)
C4_PrivilegedPerBinding ==
    pc = "done" =>
        /\ Cardinality(IssuesOfType("privileged")) =
              Cardinality({ k \in BindingIdx :
                              PortBindings[k].HostPort > 0 /\ PortBindings[k].HostPort < 1024 })
        /\ \A i \in IssuesOfType("privileged") :
              /\ Issues[i].Severity = "warning"
              /\ Len(Issues[i].Bindings) = 1
              /\ Issues[i].Bindings[1].HostPort = Issues[i].Port
              /\ Issues[i].Port > 0 /\ Issues[i].Port < 1024
        /\ \A k \in BindingIdx :
              Cardinality({ i \in IssuesOfType("privileged") : Issues[i].Bindings = <<PortBindings[k]>> })
                = IF PortBindings[k].HostPort > 0 /\ PortBindings[k].HostPort < 1024
                  THEN Cardinality({ j \in BindingIdx : PortBindings[j] = PortBindings[k] })
                  ELSE 0

\* two bindings share a privileged port that has a collision issue, next to
\* a binding on an unprivileged port
C4_Witness ==
    /\ pc = "done"
    /\ \E p \in HostPortsBound :
          /\ IssuesOf("collision", p) # {}
          /\ Cardinality(IssuesOf("privileged", p)) >= 2
    /\ \E k \in BindingIdx : PortBindings[k].HostPort >= 1024

(* C5: when analyze has completed, a binding has a common_port issue (one, *)
(* of severity info) exactly when its host port is in the common-port      *)
(* table, its host address is empty or 0.0.0.0, and the port has no        *)
(* collision issue.                                                        *)
C5_CommonPort ==
    pc = "done" =>
        /\ \A k \in BindingIdx :
              Cardinality({ i \in IssuesOfType("common_port") : Issues[i].Bindings = <<PortBindings[k]>> })
                = IF /\ PortBindings[k].HostPort \in CommonTable
                     /\ WildcardAddr(PortBindings[k])
                     /\ IssuesOf("collision", PortBindings[k].HostPort) = {}
                  THEN 1 ELSE 0
        /\ \A i \in IssuesOfType("common_port") :
              /\ Issues[i].Severity = "info"
              /\ Len(Issues[i].Bindings) = 1
              /\ Issues[i].Bindings[1].HostPort = Issues[i].Port
              /\ \E k \in BindingIdx : PortBindings[k] = Issues[i].Bindings[1]

\* a common_port issue for a wildcard binding next to a collision issue on
\* another port, whose wildcard bindings are outside the table
C5_Witness ==
    /\ pc = "done"
    /\ \E i \in IssuesOfType("common_port") :
          /\ WildcardAddr(Issues[i].Bindings[1])
          /\ \E j \in IssuesOfType("collision") :
                /\ Issues[j].Port # Issues[i].Port
                /\ Issues[j].Port \notin CommonTable
                /\ NumWild(Issues[j].Port) >= 2

\* a collision on a port of the table keeps its wildcard binding from a
\* common_port issue
C5_Suppressed ==
    /\ pc = "done"
    /\ \E p \in CommonTable :
          /\ IssuesOf("collision", p) # {}
          /\ NumWild(p) >= 1
          /\ NumSpecific(p) >= 1

(* C6: when analyze has completed, the issue list, parse_error issues      *)
(* included, is sorted by severity rank (error, warning, info) and, within *)
(* one severity, by non-decreasing port.                                   *)
C6_Sorted ==
    pc = "done" =>
        \A i, j \in IssueIdx :
            i < j =>
                \/ Rank(Issues[i].Severity) < Rank(Issues[j].Severity)
                \/ /\ Rank(Issues[i].Severity) = Rank(Issues[j].Severity)
                   /\ Issues[i].Port <= Issues[j].Port

\* an error on a high port precedes a warning on a lower port, and a
\* parse_error issue is in the list
C6_Witness ==
    /\ pc = "done"
    /\ IssuesOfType("parse_error") # {}
    /\ \E i, j \in IssueIdx :
          /\ i < j
          /\ Issues[i].Severity = "error"
          /\ Issues[j].Severity = "warning"
          /\ Issues[j].Port > 0
          /\ Issues[i].Port > Issues[j].Port

(* C7: for a host port H > 0 and a container port C, parsePort maps the    *)
(* long form {target: C, published: H, protocol: tcp}, with published an   *)
(* integer or a numeral string, to a binding with the same hostPort,       *)
(* containerPort, protocol, hostAddress, service and source as the binding *)
(* it makes of the string "H:C".                                           *)
C7_LongFormEqualsShort ==
    LET v == port.value
        H == IF v.published.t = "int" THEN v.published.i ELSE DecVal(v.published.s)
        short == parsePort(YString(PortStr(<<>>, H, v.target.i, <<>>)), port.service, port.file)
    IN  ( /\ pc = "returned"
          /\ v.type = "map"
          /\ v.target.t = "int" /\ v.target.i >= 0
          /\ \/ v.published.t = "int"
             \/ v.published.t = "string" /\ v.published.s # <<>> /\ AllDigits(v.published.s)
          /\ H > 0
          /\ v.protocol = StrV(Str_tcp)
          /\ v.host_ip = Absent )
        =>
        /\ binding # <<>>
        /\ short # <<>>
        /\ binding[1].HostPort = H
        /\ binding[1].HostPort = short[1].HostPort
        /\ binding[1].ContainerPort = short[1].ContainerPort
        /\ binding[1].Protocol = short[1].Protocol
        /\ binding[1].HostIP = short[1].HostIP
        /\ binding[1].Service = short[1].Service
        /\ binding[1].File = short[1].File

\* the long form with published given as a numeral string has been parsed
C7_Witness ==
    /\ pc = "returned"
    /\ port.value.type = "map"
    /\ port.value.target.t = "int"
    /\ port.value.published.t = "string"
    /\ port.value.published.s # <<>> /\ AllDigits(port.value.published.s)
    /\ port.value.protocol = StrV(Str_tcp)
    /\ port.value.host_ip = Absent
    /\ binding # <<>>

C10_UnreadableFile ==
    /\ \A f \in 1..Len(files) :
          IF files[f].readable
          THEN /\ SelectSeq(PortBindings, LAMBDA b : b.File = f) = FileBindings(files[f], f)
               /\ { i \in IssuesOfType("parse_error") : Issues[i].Description.file = f } = {}
          ELSE /\ Cardinality({ i \in IssuesOfType("parse_error") : Issues[i].Description.file = f }) = 1
               /\ \A i \in IssuesOfType("parse_error") : Issues[i].Severity = "warning"
               /\ \A k \in BindingIdx : PortBindings[k].File # f
    /\ pc = "done" => err = "nil"

\* after an unreadable first file the second file has been parsed and analysed
C10_Witness ==
    /\ pc = "done"
    /\ err = "nil"
    /\ Len(files) = 2
    /\ ~files[1].readable
    /\ files[2].readable
    /\ \E k \in BindingIdx : PortBindings[k].File = 2
    /\ \E i \in IssueIdx : Issues[i].Type # "parse_error"

ParseErrorsOf(fs) ==
    LET RECURSIVE Errs(_)
        Errs(k) ==
            IF k = 0 THEN <<>>
            ELSE IF fs[k].readable THEN Errs(k - 1)
            ELSE Append(Errs(k - 1),
                    [Severity |-> "warning", Type |-> "parse_error", Port |-> 0,
                     Description |-> [NoDesc EXCEPT !.fmt = "Failed to parse %s: %v", !.file = k],
                     Bindings |-> <<>>])
    IN  Errs(Len(fs))

\* the files with every expose list emptied
WithoutExpose(fs) ==
    [k \in 1..Len(fs) |->
        [fs[k] EXCEPT !.services =
            [i \in 1..Len(fs[k].services) |-> [fs[k].services[i] EXCEPT !.expose = <<>>]]]]

\* the port index of a binding list
IndexOf(bs) ==
    [p \in { bs[k].HostPort : k \in 1..Len(bs) } |-> SelectSeq(bs, LAMBDA b : b.HostPort = p)]

\* the issue lists a scan of fs can end with
IssueListsOf(fs) ==
    LET bs == ExpectedBindings(fs, Len(fs))
    IN  UNION { SortSlice(Unsorted(ParseErrorsOf(fs), IndexOf(bs), bs, order)) :
                order \in Orders(DOMAIN IndexOf(bs)) }

(* C12: expose lists take no part in a scan: the binding list and the port *)
(* index are those of the same files with every expose list emptied, no    *)
(* binding belongs to a service without ports entries, and when the scan   *)
(* has finished the issue list is one the files without expose lists give. *)
C12_ExposeIgnored ==
    /\ PortBindings = ExpectedBindings(WithoutExpose(files), Len(files))
    /\ PortMap = IndexOf(ExpectedBindings(WithoutExpose(files), Len(files)))
    /\ \A k \in BindingIdx :
          \E i \in 1..Len(files[PortBindings[k].File].services) :
              /\ files[PortBindings[k].File].services[i].name = PortBindings[k].Service
              /\ files[PortBindings[k].File].services[i].ports # <<>>
    /\ pc = "done" => Issues \in IssueListsOf(WithoutExpose(files))

\* a service with an expose entry and no ports entry next to a service with
\* one ports entry on the exposed port: one binding and no grouping issue
C12_Witness ==
    /\ pc = "done"
    /\ Len(PortBindings) = 1
    /\ IssuesOfType("collision") = {}
    /\ \E i, j \in 1..Len(files[1].services) :
          /\ files[1].services[i].ports = <<>>
          /\ files[1].services[i].expose = << YString(PortStr(<<>>, 8080, -1, <<>>)) >>
          /\ files[1].services[j].ports # <<>>
          /\ PortBindings[1].Service = files[1].services[j].name
          /\ PortBindings[1].HostPort = 8080

\* the profile names DetectPortConflicts treats as active
ActiveNames == {"default"} \cup { activeProfiles[i] : i \in 1..Len(activeProfiles) }

\* the services of the files, as <<file, position>> pairs
ServicesRead ==
    { <<f, i>> \in (1..Len(files)) \X (1..Cardinality(Services)) : i <= Len(files[f].services) }
ServiceAt(fi) == files[fi[1]].services[fi[2]]

TagsOf(svc) == { svc.profiles[i] : i \in 1..Len(svc.profiles) }

\* svc is active under profile name n
ActiveUnder(svc, n) ==
    /\ n \in ActiveNames
    /\ IF svc.profiles = <<>> THEN n = "default" ELSE n \in TagsOf(svc)

\* the host ports the entries of svc claim, as normalised by parsePort
ClaimedPorts(svc) ==
    { b[1].HostPort : b \in { parsePort(svc.ports[i], svc.name, 0) : i \in 1..Len(svc.ports) } \ { <<>> } }

\* one file with two services that both claim host port 9090 only, one
\* tagged dev and one without a profiles key
DevAndUntagged ==
    /\ Len(files) = 1
    /\ files[1].readable
    /\ Len(files[1].services) = 2
    /\ \E i, j \in 1..2 :
          /\ files[1].services[i].profiles = <<"dev">>
          /\ files[1].services[j].profiles = <<>>
    /\ \A i \in 1..2 :
          /\ Len(files[1].services[i].ports) = 1
          /\ ClaimedPorts(files[1].services[i]) = {9090}

(* C13: when DetectPortConflicts has returned, every service named in a    *)
(* conflict is a service of the files that is active under the profile it  *)
(* is named with (a profile of the active set it is tagged with, or        *)
(* default when it has no tag) and that lists the port text; with a dev    *)
(* service and an untagged service both claiming 9090, activating dev      *)
(* gives exactly one conflict, on 9090, and activating nothing gives none. *)
C13_ActiveServicesOnly ==
    pc = "detected" =>
        /\ \A c \in 1..Len(conflicts) : \A j \in 1..Len(conflicts[c].Services) :
              \E fi \in ServicesRead :
                  /\ ServiceAt(fi).name = conflicts[c].Services[j].Service
                  /\ ActiveUnder(ServiceAt(fi), conflicts[c].Services[j].Profile)
                  /\ \E k \in 1..Len(ServiceAt(fi).ports) :
                        PortText(ServiceAt(fi).ports[k]) = << conflicts[c].Services[j].Port >>
        /\ (DevAndUntagged /\ activeProfiles = <<"dev">>) =>
              /\ Len(conflicts) = 1
              /\ conflicts[1].Port = FmtNat(9090)
        /\ (DevAndUntagged /\ activeProfiles = <<>>) => conflicts = <<>>

\* the dev service and the untagged service on 9090 with dev active: one
\* conflict naming both
C13_Witness ==
    /\ pc = "detected"
    /\ DevAndUntagged
    /\ activeProfiles = <<"dev">>
    /\ Len(conflicts) = 1
    /\ { conflicts[1].Services[j].Service : j \in 1..Len(conflicts[1].Services) } = Services

\* the services of the files that are active and claim host port h
ActiveClaimants(h) ==
    { fi \in ServicesRead :
        /\ \E n \in ActiveNames : ActiveUnder(ServiceAt(fi), n)
        /\ h \in ClaimedPorts(ServiceAt(fi)) }

(* C14: when DetectPortConflicts has returned, a host port has a conflict  *)
(* exactly when more than one distinct active service claims it, and every *)
(* conflict names at least two distinct services: no service conflicts     *)
(* with itself, whatever the list of active profiles is.                   *)
C14_DistinctServices ==
    pc = "detected" =>
        /\ \A h \in {9090, 9091} :
              (\E c \in 1..Len(conflicts) : conflicts[c].Port = FmtNat(h))
              <=> Cardinality(ActiveClaimants(h)) > 1
        /\ \A c \in 1..Len(conflicts) :
              Cardinality({ conflicts[c].Services[j].Service :
                              j \in 1..Len(conflicts[c].Services) }) > 1

\* the service of the files that binding b was read from
OwnerOf(b) ==
    CHOOSE fi \in ServicesRead : fi[1] = b.File /\ ServiceAt(fi).name = b.Service

(* C15: when the scan command was given active profiles, every binding     *)
(* attached to an issue of the reported list belongs to a service that has *)
(* no profiles key or is tagged with one of the active profiles.           *)
C15_InactiveServicesIgnored ==
    (pc = "exited" /\ Len(activeProfiles) > 0) =>
        \A i \in IssueIdx : \A a \in 1..Len(Issues[i].Bindings) :
            \E n \in ActiveNames : ActiveUnder(ServiceAt(OwnerOf(Issues[i].Bindings[a])), n)

\* a runtime conflict was recorded
RuntimeConflictRecorded == ~runtimeResult.nil /\ Len(runtimeResult.Conflicts) > 0

(* C16: when the scan command has ended, its exit code is 1 exactly when   *)
(* --strict was given and the issue list is not empty or a runtime         *)
(* conflict was recorded.                                                  *)
C16_StrictExit ==
    pc = "exited" =>
        (exitCode = 1 <=> (strictMode /\ (Issues # <<>> \/ RuntimeConflictRecorded)))

AdvisoryTypes == { "privileged", "common_port" }
ConflictTypes == { "collision", "potential_collision", "profile_collision" }

\* the issue list is not empty and holds advisory findings only
AdvisoryOnly == Issues # <<>> /\ \A i \in IssueIdx : Issues[i].Type \in AdvisoryTypes

(* C17 as stated: a strict run fails only when a conflict was detected, so *)
(* a list of privileged and common_port issues alone never makes it exit   *)
(* with code 1.                                                            *)
C17_AdvisoryNeverFatal ==
    (pc = "exited" /\ strictMode /\ exitCode = 1) =>
        \/ \E i \in IssueIdx : Issues[i].Type \in ConflictTypes
        \/ RuntimeConflictRecorded

(* C17: advisory findings are fatal under --strict like any other issue:   *)
(* with text or markdown output a strict run exits with code 1 when the    *)
(* issue list holds only privileged and common_port issues, and with code  *)
(* 0 when the list is empty and no runtime conflict was recorded.          *)
C17_AdvisoryFatal ==
    (pc = "exited" /\ strictMode /\ outputFormat \in {"text", "markdown"}) =>
        /\ AdvisoryOnly => exitCode = 1
        /\ (Issues = <<>> /\ ~RuntimeConflictRecorded) => exitCode = 0

\* a strict text run over a list of one privileged and one common_port
\* issue, without runtime conflicts, has exited with code 1
C17_Witness ==
    /\ pc = "exited"
    /\ strictMode
    /\ outputFormat = "text"
    /\ AdvisoryOnly
    /\ IssuesOfType("privileged") # {}
    /\ IssuesOfType("common_port") # {}
    /\ ~RuntimeConflictRecorded
    /\ exitCode = 1

(* C18: two scans of the same files end with the same issue list: the same *)
(* issues in the same order, each with its bindings in the same order.     *)
C18_Deterministic ==
    rerun.ran => rerun.Issues = Issues

SpecificAddrs(p) ==
    { PortBindings[k].HostIP :
        k \in { j \in BindingIdx : PortBindings[j].HostPort = p /\ ~WildcardAddr(PortBindings[j]) } }

(* C19: when analyze has completed, a port has a potential_collision issue *)
(* only if its bindings on specific addresses carry at least two distinct  *)
(* host addresses.                                                         *)
C19_DistinctAddresses ==
    pc = "done" =>
        \A p \in HostPortsBound :
            IssuesOf("potential_collision", p) # {} => Cardinality(SpecificAddrs(p)) >= 2


(* C20: when the scan command has exited, the issue list it rendered,      *)
(* profile_collision issues included, is sorted by severity rank and,      *)
(* within one severity, by non-decreasing port: every error precedes every *)
(* warning and every info.                                                 *)
C20_RenderedSorted ==
    pc = "exited" =>
        \A i, j \in IssueIdx :
            i < j =>
                \/ Rank(Issues[i].Severity) < Rank(Issues[j].Severity)
                \/ /\ Rank(Issues[i].Severity) = Rank(Issues[j].Severity)
                   /\ Issues[i].Port <= Issues[j].Port


(* C21: every binding parsePort returns has protocol tcp or udp, whatever  *)
(* the shape of the declaration, the long-form mapping with any protocol   *)
(* value included.                                                         *)
C21_ProtocolTcpOrUdp ==
    (pc = "returned" /\ binding # <<>>) => binding[1].Protocol \in { Str_tcp, Str_udp }


(* C22: every binding of a scan has a positive host port, negative integer *)
(* declarations included, and when analyze has completed no collision or   *)
(* potential_collision issue is on a port that is not positive.            *)
C22_PositiveHostPorts ==
    /\ \A k \in BindingIdx : PortBindings[k].HostPort > 0
    /\ pc = "done" =>
          \A i \in IssueIdx :
              Issues[i].Type \in { "collision", "potential_collision" } => Issues[i].Port > 0


(* C23: parsePort returns no binding for a long-form mapping whose target  *)
(* key is missing or is not an integer, whatever its published value, and  *)
(* none for a mapping that has a target but no published key.              *)
C23_TargetRequired ==
    (pc = "returned" /\ port.value.type = "map") =>
        /\ port.value.target.t # "int" => binding = <<>>
        /\ port.value.published.t = "absent" => binding = <<>>


(* C24: for every port string parsePort accepts, extractHostPort returns   *)
(* the decimal text of the host port of the binding parsePort returns.     *)
C24_SameHostPort ==
    (pc = "returned" /\ binding # <<>> /\ extracted # <<>>) =>
        extracted[1] = FmtInt(binding[1].HostPort)


\* the text is the decimal numeral of a positive integer
PositiveNumeral(s) == s # <<>> /\ AllDigits(s) /\ DecVal(s) > 0

(* C25: every conflict DetectPortConflicts returns is on a port whose text *)
(* is a literal positive integer, and every declaration it implicates is   *)
(* one parsePort accepts.                                                  *)
C25_RejectedNeverConflict ==
    pc = "detected" =>
        \A i \in 1..Len(conflicts) :
            /\ PositiveNumeral(conflicts[i].Port)
            /\ \A j \in 1..Len(conflicts[i].Services) :
                  parsePort(YString(conflicts[i].Services[j].Port), "web", 1) # <<>>


(* C26: when the scan command has exited, every issue of its list other    *)
(* than a parse_error has a positive port and a non-empty bindings list    *)
(* whose members all have that host port; a collision, potential_collision *)
(* or profile_collision issue has at least two bindings, a privileged or   *)
(* common_port issue exactly one.                                          *)
C26_IssuesWellFormed ==
    pc = "exited" =>
        \A i \in IssueIdx :
            Issues[i].Type # "parse_error" =>
                /\ Issues[i].Port > 0
                /\ Len(Issues[i].Bindings) > 0
                /\ \A k \in 1..Len(Issues[i].Bindings) : Issues[i].Bindings[k].HostPort = Issues[i].Port
                /\ Issues[i].Type \in { "collision", "potential_collision", "profile_collision" } =>
                      Len(Issues[i].Bindings) >= 2
                /\ Issues[i].Type \in { "privileged", "common_port" } =>
                      Len(Issues[i].Bindings) = 1


\* the collision and potential_collision issues on port p
GroupingIssues(p) == IssuesOf("collision", p) \cup IssuesOf("potential_collision", p)

(* C27: when analyze has completed, every host port with more than one     *)
(* binding has exactly one grouping issue, a collision or a                *)
(* potential_collision, and every host port with exactly one binding has   *)
(* none.                                                                   *)
C27_OneGroupingIssue ==
    pc = "done" =>
        \A p \in HostPortsBound :
            Cardinality(GroupingIssues(p)) = IF Len(OnPort(p)) > 1 THEN 1 ELSE 0

\* one scan with a port of two or more bindings that has a collision issue
\* and a port of one binding
C27_Witness ==
    /\ pc = "done"
    /\ \E p \in HostPortsBound : Len(OnPort(p)) > 1 /\ IssuesOf("collision", p) # {}
    /\ \E p \in HostPortsBound : Len(OnPort(p)) = 1


(* C28: when a scan has completed, each host port has at most one          *)
(* common_port issue, and no host port has both a common_port issue and a  *)
(* collision or potential_collision issue.                                 *)
C28_CommonPortAlone ==
    pc = "done" =>
        \A p \in HostPortsBound :
            /\ Cardinality(IssuesOf("common_port", p)) <= 1
            /\ IssuesOf("common_port", p) # {} =>
                  IssuesOf("collision", p) \cup IssuesOf("potential_collision", p) = {}

\* a port of the table with two wildcard bindings: a collision issue and no
\* common_port issue
C28_Witness ==
    /\ pc = "done"
    /\ \E p \in HostPortsBound :
          /\ p \in CommonTable
          /\ NumWild(p) >= 2
          /\ IssuesOf("collision", p) # {}
          /\ IssuesOf("common_port", p) = {}


\* how many members of the sequence s are equal to x
Count(s, x) == Cardinality({ k \in 1..Len(s) : s[k] = x })

RECURSIVE SumOfGroups(_)
SumOfGroups(keys) ==
    IF keys = {} THEN 0
    ELSE LET p == CHOOSE q \in keys : TRUE
         IN  Len(PortMap[p]) + SumOfGroups(keys \ {p})

(* C29: in every state of a scan the port index agrees with the binding    *)
(* list: the keys of PortMap are the host ports of PortBindings, the group *)
(* of a key holds the bindings of PortBindings with that host port, each   *)
(* as many times as the list does, no group is empty, and the sizes of the *)
(* groups add up to the length of PortBindings.                            *)
C29_IndexAgrees ==
    /\ DOMAIN PortMap = HostPortsBound
    /\ \A p \in DOMAIN PortMap :
          /\ PortMap[p] # <<>>
          /\ \A k \in 1..Len(PortMap[p]) : PortMap[p][k].HostPort = p
          /\ \A k \in BindingIdx :
                PortBindings[k].HostPort = p =>
                    Count(PortMap[p], PortBindings[k]) = Count(PortBindings, PortBindings[k])
    /\ SumOfGroups(DOMAIN PortMap) = Len(PortBindings)

\* two files have been parsed, the index has two keys, and one group holds
\* two bindings
C29_Witness ==
    /\ Len(files) >= 2
    /\ Cardinality(DOMAIN PortMap) >= 2
    /\ \E p \in DOMAIN PortMap : Len(PortMap[p]) >= 2


====
